---- MODULE Spec2Model ----
(***************************************************************************)
(* Model of the session orchestrator in frontend/src/App.tsx: the voice    *)
(* session life cycle (startInteraction / disconnect), the WebRTC          *)
(* signalling of each start attempt, the event stream (SSE) client, the    *)
(* remote-view (browser WebSocket) channel and the pointer input forwarded *)
(* over it.                                                                *)
(*                                                                         *)
(* React state is modelled by one variable per useState cell, refs by one  *)
(* variable per useRef cell.  Every invocation of startInteraction is an   *)
(* "attempt" with its own local variables (stream, pc, pending) and its    *)
(* own position; the callbacks created with useCallback carry the values   *)
(* of isBrowserActive / hasBrowserFrame of the render that created them.   *)
(***************************************************************************)
EXTENDS Integers, Sequences, FiniteSets, TLC

\* ------------------------------------------------------------------ bounds
MaxAttempts == 2      \* invocations of startInteraction
MaxCands == 2         \* ICE candidates discovered, all peer connections together
MaxStreams == 2       \* EventSource objects created
MaxSseTimers == 2     \* SSE reconnect timers scheduled
MaxEvents == 3        \* event-stream messages delivered
MaxSockets == 6       \* WebSocket objects created
MaxRetry == 5         \* reconnects of the remote-view channel scheduled

\* ------------------------------------------------------- program constants
BaseDelay == 1000     \* App.tsx:85
CapDelay == 5000      \* App.tsx:85
SseDelay == 2000      \* App.tsx:196
RemoteWidth == 1280   \* App.tsx:124
RemoteHeight == 800   \* App.tsx:125

NULL == 0
Attempts == 1..MaxAttempts

Waiting == "Waiting for search request..."
Searching == "Searching on Booking.com..."
SearchFailed == "Search failed"
SearchComplete == "Search complete"

Fields == {"destination", "checkin_date"}
EmptyParams == [f \in {} |-> "x"]

VARIABLES
    \* useState cells
    status, chatHistory, bookingParams, isBrowserActive, browserStatus,
    isMuted, hasBrowserFrame,
    \* useRef cells
    pcRef, pcIdRef, mediaStreamRef, remoteAudioRef, eventSourceRef,
    sseReconnectTimer, disconnectedRef, browserWsReconnectTimer,
    browserWsRetryCount, browserWsRef,
    \* objects: start attempts (with their stream and peer connection),
    \* EventSource objects, SSE timers, WebSocket objects, WebSocket timers
    attempts, streams, sseTimers, sockets, wsTimers,
    \* requests sent to the backend: the number of POST /offer, and the
    \* PATCH /offer requests in sending order, kept per peer connection whose
    \* candidates they carry
    offersSent, patches,
    \* the last pointer or wheel event over the canvas and the messages its
    \* handler sent to the remote-view socket
    lastInput,
    \* whether the component is mounted
    mounted,
    \* history: events applied, arguments of the last tool_called, whether a
    \* tool_called lacked a field the parameters had, fragments of the current
    \* bot run, consecutive disconnect() calls
    nEvents, lastToolArgs, droppedFields, botRun, stopRun,
    \* history: how the last message of the event stream was formed, and the
    \* error field of the tool_result whose status text is displayed
    lastEvent, shownError

reactVars == <<status, chatHistory, bookingParams, isBrowserActive,
               browserStatus, isMuted, hasBrowserFrame>>
refVars == <<pcRef, pcIdRef, mediaStreamRef, remoteAudioRef, eventSourceRef,
             sseReconnectTimer, disconnectedRef, browserWsReconnectTimer,
             browserWsRetryCount, browserWsRef>>
objVars == <<attempts, streams, sseTimers, sockets, wsTimers>>
netVars == <<offersSent, patches>>
inputVars == <<lastInput>>
traceVars == <<lastEvent, shownError>>
histVars == <<nEvents, lastToolArgs, droppedFields, botRun, stopRun>>
vars == <<reactVars, refVars, objVars, netVars, inputVars, mounted, histVars,
         traceVars>>

\* the remote-view state and refs, untouched by the session actions
viewVars == <<browserWsReconnectTimer, browserWsRetryCount, browserWsRef,
              sockets, wsTimers>>
\* the event-stream connection state
sseVars == <<eventSourceRef, sseReconnectTimer, streams, sseTimers>>
\* what the event handlers write
eventVars == <<chatHistory, bookingParams, nEvents, lastToolArgs, droppedFields, botRun>>

\* ------------------------------------------------------------ start attempt
\* One invocation of startInteraction.  pc is its position:
\*   gum    awaiting getUserMedia                         (line 279)
\*   local  awaiting createOffer / setLocalDescription    (lines 310-311)
\*   post   awaiting the POST /offer response             (lines 313-320)
\*   remote awaiting setRemoteDescription                 (line 322)
\*   flush  awaiting the PATCH of the buffered candidates (line 325)
\*   done / failed  the try block ended / the catch block ran
NoAttempt ==
    [pc |-> "none", trackStopped |-> FALSE, trackEnabled |-> TRUE,
     pcClosed |-> FALSE, handlers |-> FALSE, remoteSet |-> FALSE,
     connState |-> "new", pending |-> <<>>,
     nCands |-> 0, localSet |-> FALSE, stale |-> FALSE, buffered |-> <<>>]

InFlight == {"gum", "local", "post", "remote", "flush"}

\* no input event yet
NoInput == [event |-> [type |-> "none"], sent |-> <<>>]

\* the closure of the current render: what connectBrowserWs captures
RenderClosure == [active |-> isBrowserActive, frame |-> hasBrowserFrame]

Init ==
    /\ status = "idle"
    /\ chatHistory = <<>>
    /\ bookingParams = EmptyParams
    /\ isBrowserActive = FALSE
    /\ browserStatus = Waiting
    /\ isMuted = FALSE
    /\ hasBrowserFrame = FALSE
    /\ pcRef = NULL
    /\ pcIdRef = NULL
    /\ mediaStreamRef = NULL
    /\ remoteAudioRef = NULL
    /\ eventSourceRef = NULL
    /\ sseReconnectTimer = NULL
    /\ disconnectedRef = TRUE
    /\ browserWsReconnectTimer = NULL
    /\ browserWsRetryCount = 0
    /\ browserWsRef = NULL
    /\ attempts = [a \in Attempts |-> NoAttempt]
    /\ streams = <<>>
    /\ sseTimers = <<>>
    /\ sockets = <<>>
    /\ wsTimers = <<>>
    /\ offersSent = 0
    /\ patches = [a \in Attempts |-> <<>>]
    /\ lastInput = NoInput
    /\ mounted = TRUE
    /\ lastEvent = "none"
    /\ shownError = "none"
    /\ nEvents = 0
    /\ lastToolArgs = EmptyParams
    /\ droppedFields = FALSE
    /\ botRun = <<>>
    /\ stopRun = "none"


\* ------------------------------------------------------------- event stream
\* mutant: connectSSE without the test of the stored connection
ConnectSSE_NoGuard(cap, disc) ==
    IF disc
    THEN UNCHANGED <<eventSourceRef, streams>>
    ELSE /\ Len(streams) < MaxStreams
         /\ streams' = Append(streams, [open |-> TRUE, cap |-> cap])
         /\ eventSourceRef' = Len(streams) + 1

\* connectSSE (lines 153-158) called from a callback whose connectBrowserWs
\* closure is cap, with disconnectedRef.current = disc at the call.
ConnectSSE(cap, disc) ==
    IF eventSourceRef # NULL \/ disc
    THEN UNCHANGED <<eventSourceRef, streams>>
    ELSE /\ Len(streams) < MaxStreams
         /\ streams' = Append(streams, [open |-> TRUE, cap |-> cap])
         /\ eventSourceRef' = Len(streams) + 1

\* ---------------------------------------------------------------- disconnect
\* lines 230-231 and 239-246 on the attempt objects: the tracks of the stored
\* stream are stopped, the stored peer connection loses its handlers and is
\* closed.  An attempt still suspended when this runs is stale from then on.
TornDown(att) ==
    [a \in Attempts |->
        LET r1 == IF a = mediaStreamRef
                  THEN [att[a] EXCEPT !.trackStopped = TRUE] ELSE att[a]
            r2 == IF a = pcRef
                  THEN [r1 EXCEPT !.handlers = FALSE, !.pcClosed = TRUE,
                                  !.connState = "closed"]
                  ELSE r1
        IN IF r2.pc \in InFlight THEN [r2 EXCEPT !.stale = TRUE] ELSE r2]

\* mutant: the mute flag is flipped instead of reset
MutedAfterDisconnect_Toggle == ~isMuted

\* setIsMuted(false), line 260
MutedAfterDisconnect == FALSE

\* pcIdRef.current = null, line 247
PcIdAfterDisconnect == NULL

\* lines 253-256: clearTimeout of the stored SSE timer
ClearedSseTimers ==
    IF sseReconnectTimer # NULL
    THEN [sseTimers EXCEPT ![sseReconnectTimer].state =
              IF @ = "pending" THEN "cleared" ELSE @]
    ELSE sseTimers

\* mutant: the stored EventSource is dropped without being closed
ClosedStreams_NotClosed == streams

\* lines 249-252: close() of the stored EventSource
ClosedStreams ==
    IF eventSourceRef # NULL
    THEN [streams EXCEPT ![eventSourceRef].open = FALSE]
    ELSE streams

\* mutant: the stop clears the frame flag, as disconnectBrowserWs does
FrameAfterDisconnect_Cleared == FALSE

\* lines 258-261: disconnect() leaves the remote view alone
FrameAfterDisconnect == hasBrowserFrame

NextStopRun ==
    CASE stopRun = "none" -> IF status = "connected" THEN "stoppedEst" ELSE "stopped"
      [] stopRun = "stopped" -> "twice"
      [] stopRun = "stoppedEst" -> "twiceEst"
      [] OTHER -> stopRun

\* disconnect (lines 227-262), run when the attempt objects are att
Disconnect(att) ==
    /\ disconnectedRef' = TRUE
    /\ attempts' = TornDown(att)
    /\ mediaStreamRef' = NULL
    /\ remoteAudioRef' = NULL
    /\ pcRef' = NULL
    /\ pcIdRef' = PcIdAfterDisconnect
    /\ streams' = ClosedStreams
    /\ eventSourceRef' = NULL
    /\ sseTimers' = ClearedSseTimers
    /\ sseReconnectTimer' = NULL
    /\ status' = "idle"
    /\ isMuted' = MutedAfterDisconnect
    /\ browserStatus' = Waiting
    /\ shownError' = "none"
    /\ stopRun' = NextStopRun
    /\ hasBrowserFrame' = FrameAfterDisconnect
    /\ UNCHANGED <<chatHistory, bookingParams, isBrowserActive,
                   viewVars, netVars, inputVars, mounted, lastEvent, nEvents, lastToolArgs,
                   droppedFields, botRun>>

\* ----------------------------------------------------------- the main button
\* onClick = status === 'idle' ? startInteraction : disconnect (line 390)
Started == {a \in Attempts : attempts[a].pc # "none"}

\* startInteraction up to its first await (lines 267-279)
ClickStart ==
    /\ mounted
    /\ status = "idle"
    /\ Cardinality(Started) < MaxAttempts
    /\ LET a == Cardinality(Started) + 1 IN
       attempts' = [b \in Attempts |->
                      IF b = a THEN [NoAttempt EXCEPT !.pc = "gum"]
                      ELSE IF attempts[b].pc \in InFlight
                           THEN [attempts[b] EXCEPT !.stale = TRUE]
                           ELSE attempts[b]]
    /\ disconnectedRef' = FALSE
    /\ status' = "connecting"
    /\ chatHistory' = <<>>
    /\ bookingParams' = EmptyParams
    /\ isBrowserActive' = FALSE
    /\ browserStatus' = Waiting
    /\ shownError' = "none"
    /\ isMuted' = FALSE
    /\ hasBrowserFrame' = FALSE
    /\ ConnectSSE(RenderClosure, FALSE)
    /\ lastToolArgs' = EmptyParams
    /\ droppedFields' = FALSE
    /\ botRun' = <<>>
    /\ stopRun' = "none"
    /\ UNCHANGED <<pcRef, pcIdRef, mediaStreamRef, remoteAudioRef,
                   sseReconnectTimer, sseTimers, viewVars, netVars, inputVars, mounted, lastEvent,
                   nEvents>>

ClickStop ==
    /\ mounted
    /\ status # "idle"
    /\ Disconnect(attempts)

\* ------------------------------------------------- startInteraction, resumed
\* mutant: the catch block starts the next attempt by itself
Catch_Retry(a, att) ==
    /\ attempts' = [b \in Attempts |->
                      IF b = a THEN [att[a] EXCEPT !.pc = "failed"]
                      ELSE IF b = Cardinality(Started) + 1
                           THEN [NoAttempt EXCEPT !.pc = "gum"]
                           ELSE att[b]]
    /\ status' = IF Cardinality(Started) < MaxAttempts THEN "connecting" ELSE "idle"

\* the catch block (lines 328-331) of attempt a, the objects being att
Catch(a, att) ==
    /\ attempts' = [att EXCEPT ![a].pc = "failed"]
    /\ status' = "idle"

\* what every continuation of startInteraction leaves alone
StartFrame ==
    /\ stopRun' = "none"
    /\ UNCHANGED <<chatHistory, bookingParams, isBrowserActive, browserStatus,
                   isMuted, hasBrowserFrame, disconnectedRef, sseVars, viewVars,
                   inputVars, mounted, traceVars, nEvents, lastToolArgs, droppedFields, botRun>>

\* getUserMedia resolves: lines 280-310 (stream and peer connection stored,
\* handlers attached, tracks added, createOffer called)
GumResolve(a) ==
    /\ attempts[a].pc = "gum"
    /\ mediaStreamRef' = a
    /\ pcRef' = a
    /\ attempts' = [attempts EXCEPT ![a].pc = "local", ![a].handlers = TRUE]
    /\ StartFrame
    /\ UNCHANGED remoteAudioRef
    /\ UNCHANGED <<status, pcIdRef, netVars>>

\* getUserMedia rejects (permission refused): the catch block
GumReject(a) ==
    /\ attempts[a].pc = "gum"
    /\ Catch(a, attempts)
    /\ StartFrame
    /\ UNCHANGED remoteAudioRef
    /\ UNCHANGED <<pcRef, pcIdRef, mediaStreamRef, netVars>>

\* createOffer and setLocalDescription settle (lines 310-313): they reject on
\* a closed peer connection; otherwise the POST /offer is sent
LocalDescSettled(a) ==
    /\ attempts[a].pc = "local"
    /\ IF attempts[a].pcClosed
       THEN Catch(a, attempts) /\ UNCHANGED offersSent
       ELSE /\ attempts' = [attempts EXCEPT ![a].pc = "post", ![a].localSet = TRUE]
            /\ offersSent' = offersSent + 1
            /\ UNCHANGED status
    /\ StartFrame
    /\ UNCHANGED remoteAudioRef
    /\ UNCHANGED <<pcRef, pcIdRef, mediaStreamRef, patches>>

\* the connection identifier the backend issues for attempt a's offer
PcIdOf(a) == a

\* pcIdRef.current = answer.pc_id, line 321
StoredPcId(a) == PcIdOf(a)

\* the POST /offer response arrives (lines 318-322): a non-success status
\* throws; otherwise the identifier is stored and setRemoteDescription called
OfferResponse(a, ok) ==
    /\ attempts[a].pc = "post"
    /\ IF ok
       THEN /\ pcIdRef' = StoredPcId(a)
            /\ attempts' = [attempts EXCEPT ![a].pc = "remote"]
            /\ UNCHANGED status
       ELSE Catch(a, attempts) /\ UNCHANGED pcIdRef
    /\ StartFrame
    /\ UNCHANGED remoteAudioRef
    /\ UNCHANGED <<pcRef, mediaStreamRef, netVars>>

\* one PATCH /offer request (sendIceCandidates, lines 210-224) for
\* candidates of attempt a's peer connection: nothing is sent for an empty list
SendIceCandidates(a, cands, pcId) ==
    IF cands = <<>> THEN patches
    ELSE [patches EXCEPT ![a] = Append(@, [pc_id |-> pcId, candidates |-> cands])]

\* mutant: the buffered candidates are sent last-discovered first
FlushBatch_Reversed(a) ==
    [i \in 1..Len(attempts[a].pending) |->
        attempts[a].pending[Len(attempts[a].pending) + 1 - i]]

\* the list handed to sendIceCandidates at line 325
FlushBatch(a) == attempts[a].pending

\* the identifier handed to sendIceCandidates at line 325
FlushPcId(a) == PcIdOf(a)

\* ontrack (lines 291-300): the remote audio goes to a new sink, stored
OnTrack(a) == a

\* setRemoteDescription resolves (lines 322-325).  The track event of the
\* answer's audio track is fired while the description is applied, so ontrack
\* runs first if it is still attached; then the buffered candidates are sent;
\* with nothing buffered the try block ends
SetRemoteResolve(a) ==
    /\ attempts[a].pc = "remote"
    /\ ~attempts[a].pcClosed
    /\ remoteAudioRef' = IF attempts[a].handlers THEN OnTrack(a) ELSE remoteAudioRef
    /\ IF attempts[a].pending # <<>>
       THEN /\ patches' = SendIceCandidates(a, FlushBatch(a), FlushPcId(a))
            /\ attempts' = [attempts EXCEPT ![a].pc = "flush", ![a].remoteSet = TRUE]
       ELSE /\ attempts' = [attempts EXCEPT ![a].pc = "done", ![a].remoteSet = TRUE]
            /\ UNCHANGED patches
    /\ StartFrame
    /\ UNCHANGED <<status, pcRef, pcIdRef, mediaStreamRef, offersSent>>

\* setRemoteDescription rejects (closed peer connection, unusable answer)
SetRemoteReject(a) ==
    /\ attempts[a].pc = "remote"
    /\ Catch(a, attempts)
    /\ StartFrame
    /\ UNCHANGED remoteAudioRef
    /\ UNCHANGED <<pcRef, pcIdRef, mediaStreamRef, netVars>>

\* pending.length = 0, line 326
PendingAfterFlush(a) == <<>>

\* the PATCH of the buffered candidates completes (line 326)
FlushDone(a) ==
    /\ attempts[a].pc = "flush"
    /\ attempts' = [attempts EXCEPT ![a].pc = "done",
                                    ![a].pending = PendingAfterFlush(a)]
    /\ StartFrame
    /\ UNCHANGED remoteAudioRef
    /\ UNCHANGED <<status, pcRef, pcIdRef, mediaStreamRef, netVars>>


\* ------------------------------------------------- peer connection callbacks
\* the handlers of attempt a's peer connection can run: they are attached
\* (line 285-306) and not yet removed by disconnect (lines 241-244)
Live(a) == attempts[a].handlers /\ ~attempts[a].pcClosed

PcFrame ==
    /\ UNCHANGED <<chatHistory, bookingParams, isBrowserActive, hasBrowserFrame,
                   viewVars, offersSent, inputVars, mounted, traceVars, nEvents, lastToolArgs,
                   droppedFields, botRun>>

\* the number of candidates discovered so far, by all peer connections
RECURSIVE SumCands(_)
SumCands(n) == IF n = 0 THEN 0 ELSE attempts[n].nCands + SumCands(n - 1)
Discovered == SumCands(MaxAttempts)

\* the test of line 287: is the connection identifier known
IdKnown == pcIdRef # NULL

\* onicecandidate (lines 285-289) for a candidate the peer connection of
\* attempt a discovers: sent at once when the identifier is known, buffered
\* otherwise.  Candidates are numbered in discovery order.
IceCandidate(a) ==
    /\ Live(a)
    /\ attempts[a].localSet
    /\ Discovered < MaxCands
    /\ LET c == <<a, attempts[a].nCands + 1>> IN
       IF IdKnown
       THEN /\ patches' = SendIceCandidates(a, <<c>>, pcIdRef)
            /\ attempts' = [attempts EXCEPT ![a].nCands = @ + 1]
       ELSE /\ attempts' = [attempts EXCEPT
                              ![a].nCands = @ + 1,
                              ![a].pending = Append(@, c),
                              ![a].buffered = IF attempts[a].pc = "post"
                                              THEN Append(@, c) ELSE @]
            /\ UNCHANGED patches
    /\ stopRun' = "none"
    /\ PcFrame
    /\ UNCHANGED <<status, browserStatus, isMuted, pcRef, pcIdRef, mediaStreamRef,
                   remoteAudioRef, disconnectedRef, sseVars>>

\* onconnectionstatechange (lines 302-306), state 'connected'
PcConnected(a) ==
    /\ Live(a)
    /\ attempts[a].remoteSet
    /\ attempts[a].connState \in {"new", "disconnected"}
    /\ attempts' = [attempts EXCEPT ![a].connState = "connected"]
    /\ status' = "connected"
    /\ stopRun' = "none"
    /\ PcFrame
    /\ UNCHANGED <<browserStatus, isMuted, pcRef, pcIdRef, mediaStreamRef,
                   remoteAudioRef, disconnectedRef, sseVars, patches>>

\* onconnectionstatechange, state 'disconnected': neither branch of
\* lines 304-305 is taken
PcDisconnected(a) ==
    /\ Live(a)
    /\ attempts[a].connState = "connected"
    /\ attempts' = [attempts EXCEPT ![a].connState = "disconnected"]
    /\ stopRun' = "none"
    /\ PcFrame
    /\ UNCHANGED <<status, browserStatus, isMuted, pcRef, pcIdRef, mediaStreamRef,
                   remoteAudioRef, disconnectedRef, sseVars, patches>>

\* onconnectionstatechange, state 'failed': disconnect() (line 305)
PcFailed(a) ==
    /\ Live(a)
    /\ attempts[a].remoteSet
    /\ attempts[a].connState \in {"new", "disconnected"}
    /\ Disconnect([attempts EXCEPT ![a].connState = "failed"])

\* ------------------------------------------------------------------- mute
\* setIsMuted(!audioTrack.enabled), line 341, enabled being the new value
MutedAfterToggle(enabled) == ~enabled

\* toggleMute (lines 335-342); the button exists only while the status is
\* 'connected' (line 413)
ToggleMute ==
    /\ mounted
    /\ status = "connected"
    /\ IF mediaStreamRef = NULL
       THEN UNCHANGED <<attempts, isMuted>>
       ELSE LET en == ~attempts[mediaStreamRef].trackEnabled IN
            /\ attempts' = [attempts EXCEPT ![mediaStreamRef].trackEnabled = en]
            /\ isMuted' = MutedAfterToggle(en)
    /\ stopRun' = "none"
    /\ UNCHANGED <<status, chatHistory, bookingParams, isBrowserActive,
                   browserStatus, hasBrowserFrame, pcRef, pcIdRef, mediaStreamRef,
                   remoteAudioRef, disconnectedRef, sseVars, viewVars, netVars,
                   inputVars, mounted, traceVars, nEvents, lastToolArgs, droppedFields, botRun>>


\* ------------------------------------------------- event stream: error, timer
\* mutant: the error handler never schedules a retry
MayRetrySSE_Never == FALSE

\* the test of line 195: may the error handler schedule a retry
MayRetrySSE == ~disconnectedRef

\* es.onerror (lines 192-198) of the open EventSource e
SseError(e) ==
    /\ e \in 1..Len(streams)
    /\ streams[e].open
    /\ streams' = [streams EXCEPT ![e].open = FALSE]
    /\ eventSourceRef' = NULL
    /\ IF MayRetrySSE
       THEN /\ Len(sseTimers) < MaxSseTimers
            /\ sseTimers' = Append(sseTimers, [state |-> "pending",
                                               cap |-> streams[e].cap,
                                               delay |-> SseDelay])
            /\ sseReconnectTimer' = Len(sseTimers) + 1
       ELSE UNCHANGED <<sseTimers, sseReconnectTimer>>
    /\ stopRun' = "none"
    /\ UNCHANGED <<reactVars, pcRef, pcIdRef, mediaStreamRef, remoteAudioRef,
                   disconnectedRef, attempts, viewVars, netVars, inputVars, mounted, traceVars,
                   nEvents, lastToolArgs, droppedFields, botRun>>

\* the reconnect timer t fires: connectSSE (line 196)
SseTimerFire(t) ==
    /\ t \in 1..Len(sseTimers)
    /\ sseTimers[t].state = "pending"
    /\ sseTimers' = [sseTimers EXCEPT ![t].state = "fired"]
    /\ ConnectSSE(sseTimers[t].cap, disconnectedRef)
    /\ stopRun' = "none"
    /\ UNCHANGED <<reactVars, pcRef, pcIdRef, mediaStreamRef, remoteAudioRef,
                   sseReconnectTimer, disconnectedRef, attempts, viewVars,
                   netVars, inputVars, mounted, traceVars, nEvents, lastToolArgs, droppedFields,
                   botRun>>

\* ------------------------------------------------------ remote-view channel
\* mutant: the delay doubles without a cap
ReconnectDelay_Uncapped(retry) == BaseDelay * 2^retry

\* delay = Math.min(1000 * Math.pow(2, browserWsRetryCount.current), 5000),
\* line 85
ReconnectDelay(retry) ==
    IF BaseDelay * 2^retry < CapDelay THEN BaseDelay * 2^retry ELSE CapDelay

\* connectBrowserWs (lines 47-53) of a closure cap
ConnectBrowserWs(cap) ==
    IF browserWsRef # NULL /\ sockets[browserWsRef].state = "open"
    THEN UNCHANGED <<browserWsRef, sockets>>
    ELSE /\ Len(sockets) < MaxSockets
         /\ sockets' = Append(sockets, [state |-> "connecting", cap |-> cap])
         /\ browserWsRef' = Len(sockets) + 1

\* the reconnects scheduled so far, once a socket has opened: the last one is
\* marked as followed by a successful open
FollowedByOpen ==
    IF wsTimers = <<>> THEN wsTimers
    ELSE [wsTimers EXCEPT ![Len(wsTimers)].openedAfter = TRUE]

\* the reconnects scheduled so far, when one more is scheduled: the mark is
\* kept on the last one only
NotLast ==
    IF wsTimers = <<>> THEN wsTimers
    ELSE [wsTimers EXCEPT ![Len(wsTimers)].openedAfter = FALSE]

\* ws.onopen (lines 55-58); React drops the state update of a component that
\* is no longer mounted
WsOpen(w) ==
    /\ w \in 1..Len(sockets)
    /\ sockets[w].state = "connecting"
    /\ sockets' = [sockets EXCEPT ![w].state = "open"]
    /\ wsTimers' = FollowedByOpen
    /\ isBrowserActive' = (mounted \/ isBrowserActive)
    /\ stopRun' = "none"
    /\ UNCHANGED <<status, chatHistory, bookingParams, browserStatus, isMuted,
                   hasBrowserFrame, pcRef, pcIdRef, mediaStreamRef, remoteAudioRef,
                   disconnectedRef, sseVars, browserWsReconnectTimer,
                   browserWsRetryCount, browserWsRef, attempts,
                   netVars, inputVars, mounted, traceVars, nEvents, lastToolArgs, droppedFields,
                   botRun>>

\* ws.onmessage (lines 60-78) for a frame message; nonEmpty: msg.data is not
\* empty.  The canvas exists while isBrowserActive (line 563).
WsFrame(w, nonEmpty) ==
    /\ w \in 1..Len(sockets)
    /\ sockets[w].state = "open"
    /\ hasBrowserFrame' = IF nonEmpty /\ mounted /\ isBrowserActive /\ ~sockets[w].cap.frame
                          THEN TRUE ELSE hasBrowserFrame
    /\ stopRun' = "none"
    /\ UNCHANGED <<status, chatHistory, bookingParams, isBrowserActive,
                   browserStatus, isMuted, refVars, objVars, netVars,
                   inputVars, mounted, traceVars, nEvents, lastToolArgs, droppedFields, botRun>>

\* the test of line 84
MayRetryWs(cap) == cap.active /\ ~disconnectedRef

\* ws.onclose (lines 80-90); it also follows a close() by the client
WsClose(w) ==
    /\ w \in 1..Len(sockets)
    /\ sockets[w].state \in {"connecting", "open", "closing"}
    /\ sockets' = [sockets EXCEPT ![w].state = "closed"]
    /\ browserWsRef' = NULL
    /\ IF MayRetryWs(sockets[w].cap)
       THEN /\ Len(wsTimers) < MaxRetry
            /\ wsTimers' = Append(NotLast,
                                  [state |-> "pending", cap |-> sockets[w].cap,
                                   delay |-> ReconnectDelay(browserWsRetryCount),
                                   openedAfter |-> FALSE])
            /\ browserWsRetryCount' = browserWsRetryCount + 1
            /\ browserWsReconnectTimer' = Len(wsTimers) + 1
       ELSE UNCHANGED <<wsTimers, browserWsRetryCount, browserWsReconnectTimer>>
    /\ stopRun' = "none"
    /\ UNCHANGED <<reactVars, pcRef, pcIdRef, mediaStreamRef, remoteAudioRef,
                   disconnectedRef, sseVars, attempts, netVars, inputVars, mounted, traceVars,
                   nEvents, lastToolArgs, droppedFields, botRun>>

\* the backoff timer t fires: connectBrowserWs (line 88)
WsTimerFire(t) ==
    /\ t \in 1..Len(wsTimers)
    /\ wsTimers[t].state = "pending"
    /\ wsTimers' = [wsTimers EXCEPT ![t].state = "fired"]
    /\ ConnectBrowserWs(wsTimers[t].cap)
    /\ stopRun' = "none"
    /\ UNCHANGED <<reactVars, pcRef, pcIdRef, mediaStreamRef, remoteAudioRef,
                   disconnectedRef, sseVars, browserWsReconnectTimer,
                   browserWsRetryCount, attempts, netVars, inputVars, mounted, traceVars,
                   nEvents, lastToolArgs, droppedFields, botRun>>

\* disconnectBrowserWs (lines 97-108): the stored timer cleared
ClearedWsTimers ==
    IF browserWsReconnectTimer # NULL
    THEN [wsTimers EXCEPT ![browserWsReconnectTimer].state =
              IF @ = "pending" THEN "cleared" ELSE @]
    ELSE wsTimers

\* disconnectBrowserWs (lines 103-106): close() of the stored socket; its
\* close event follows
ClosedSockets ==
    IF browserWsRef # NULL
    THEN [sockets EXCEPT ![browserWsRef].state =
              IF @ \in {"connecting", "open"} THEN "closing" ELSE @]
    ELSE sockets

\* the cleanup of the effect of lines 201-207, run when the component is
\* unmounted: the stored EventSource is closed and the stored SSE timer
\* cleared (neither ref is nulled), and disconnectBrowserWs runs
Unmount ==
    /\ mounted
    /\ mounted' = FALSE
    /\ streams' = ClosedStreams
    /\ sseTimers' = ClearedSseTimers
    /\ wsTimers' = ClearedWsTimers
    /\ browserWsReconnectTimer' = NULL
    /\ browserWsRetryCount' = 0
    /\ sockets' = ClosedSockets
    /\ browserWsRef' = NULL
    /\ hasBrowserFrame' = FALSE
    /\ stopRun' = "none"
    /\ UNCHANGED <<status, chatHistory, bookingParams, isBrowserActive,
                   browserStatus, isMuted, pcRef, pcIdRef, mediaStreamRef,
                   remoteAudioRef, eventSourceRef, sseReconnectTimer,
                   disconnectedRef, attempts, netVars, inputVars, traceVars,
                   nEvents, lastToolArgs, droppedFields, botRun>>

\* ------------------------------------------------------- remote input
\* Lengths and positions are integers in half CSS pixels, so that a surface
\* of an odd number of pixels has its centre in the input set; the mapping
\* depends only on ratios of lengths.  Arithmetic is exact.

\* the displayed rectangles of the canvas (getBoundingClientRect, line 122)
Surfaces ==
    {[left |-> 3, top |-> 0, width |-> w, height |-> h] :
        w \in {6, 2560}, h \in {10, 1600}}

\* offsets of a pointer position inside a length: both edges, the centre and
\* the position next to the far edge
Offsets(len) == {0, len \div 2, len - 1, len}

\* wheel deltas, in halves
Deltas == {-3}

\* mutant: the quotient is truncated
RoundHalfUp_Floor(num, den) == num \div den

\* Math.round(num / den) for den > 0: the nearest integer, a half goes up
RoundHalfUp(num, den) == (2 * num + den) \div (2 * den)

\* scaleCoords (lines 119-127) for a pointer event at (clientX, clientY) over
\* the canvas displayed at rect
ScaleCoords(clientX, clientY, rect) ==
    [x |-> RoundHalfUp((clientX - rect.left) * RemoteWidth, rect.width),
     y |-> RoundHalfUp((clientY - rect.top) * RemoteHeight, rect.height)]

\* sendBrowserInput (lines 111-116): the messages sent, none unless the
\* stored socket is open
SendBrowserInput(payload) ==
    IF browserWsRef # NULL /\ sockets[browserWsRef].state = "open"
    THEN <<[to |-> browserWsRef, msg |-> payload]>>
    ELSE <<>>

InputFrame ==
    /\ mounted
    /\ stopRun' = "none"
    /\ UNCHANGED <<reactVars, refVars, objVars, netVars, mounted, traceVars,
                   nEvents, lastToolArgs, droppedFields, botRun>>

\* handleCanvasClick (lines 129-133); the canvas exists while isBrowserActive
\* (line 563)
HandleCanvasClick(clientX, clientY, rect) ==
    /\ isBrowserActive
    /\ LET c == ScaleCoords(clientX, clientY, rect) IN
       lastInput' =
           [event |-> [type |-> "click", clientX |-> clientX, clientY |-> clientY,
                       rect |-> rect, deltaX |-> 0, deltaY |-> 0],
            sent |-> SendBrowserInput([type |-> "click", x |-> c.x, y |-> c.y])]
    /\ InputFrame

\* handleCanvasScroll (lines 135-139); deltaX and deltaY in halves
HandleCanvasScroll(clientX, clientY, rect, deltaX, deltaY) ==
    /\ isBrowserActive
    /\ LET c == ScaleCoords(clientX, clientY, rect) IN
       lastInput' =
           [event |-> [type |-> "scroll", clientX |-> clientX, clientY |-> clientY,
                       rect |-> rect, deltaX |-> deltaX, deltaY |-> deltaY],
            sent |-> SendBrowserInput([type |-> "scroll", x |-> c.x, y |-> c.y,
                                       deltaX |-> deltaX,
                                       deltaY |-> 2 * RoundHalfUp(deltaY, 2)])]
    /\ InputFrame

\* the allow-list of line 142
SpecialKeys ==
    {"Enter", "Tab", "Escape", "Backspace", "ArrowUp", "ArrowDown", "ArrowLeft",
     "ArrowRight", "Delete", "Home", "End", "PageUp", "PageDown"}

\* key values that are one printable character: a letter, and a character
\* outside the basic multilingual plane (U+1F600, what an emoji key reports)
SingleCharacters == {"a", "U+1F600"}

\* the values of e.key that are pressed: the allow-list, the single
\* characters, a function key and a modifier key on its own
KeyValues == SpecialKeys \cup SingleCharacters \cup {"F5", "Shift"}

\* e.key.length (line 146) counts UTF-16 code units: a character outside the
\* basic multilingual plane is a surrogate pair; a named key has the length
\* of its name
KeyLength(key) ==
    IF key = "U+1F600" THEN 2 ELSE Len(key)

\* e.ctrlKey, e.altKey and e.metaKey of the event
NoMods == [ctrlKey |-> FALSE, altKey |-> FALSE, metaKey |-> FALSE]
Modifiers ==
    {NoMods, [NoMods EXCEPT !.ctrlKey = TRUE], [NoMods EXCEPT !.altKey = TRUE],
     [NoMods EXCEPT !.metaKey = TRUE]}

\* the test of line 146
IsText(key, mods) ==
    KeyLength(key) = 1 /\ ~mods.ctrlKey /\ ~mods.altKey /\ ~mods.metaKey

\* handleCanvasKeyDown (lines 141-150); prevented records e.preventDefault(),
\* connected whether the stored socket was open when the key went down
HandleCanvasKeyDown(key, mods) ==
    /\ isBrowserActive
    /\ lastInput' =
           [event |-> [type |-> "keydown", key |-> key, mods |-> mods],
            connected |-> (browserWsRef # NULL /\ sockets[browserWsRef].state = "open"),
            prevented |-> (key \in SpecialKeys \/ IsText(key, mods)),
            sent |-> IF key \in SpecialKeys
                     THEN SendBrowserInput([type |-> "keypress", key |-> key])
                     ELSE IF IsText(key, mods)
                     THEN SendBrowserInput([type |-> "type", text |-> key])
                     ELSE <<>>]
    /\ InputFrame

\* --------------------------------------------------- event stream: messages
\* A text is a sequence of characters, concatenation is \o.
Texts == {<<"a">>, <<"b">>}
ArgObjects == UNION {[S -> {"x", "y"}] : S \in SUBSET Fields}

\* data.text of a message without a text field: it is appended as it is, and
\* string concatenation turns it into the characters of "undefined"
Undefined == <<"undefined">>

\* data.error of a tool_result: no field, a field holding null, a field
\* holding a non-empty string
ErrorFields == {"absent", "null", "timeout"}

\* the error fields of a result as the backend reports it: none or a message
PlainErrors == {"absent", "timeout"}

\* the truth value of data.error in the test of line 186
Truthy(error) == error \notin {"absent", "null"}

\* messages the handler applies nothing of: text that JSON.parse rejects
\* (caught at line 189), a value that is no object (null throws at
\* data.type and is caught, a number or string has no type), a type that no
\* case of the switch matches
DroppedKinds == {"unparseable", "nonObject", "unknownType"}

MalformedKinds == DroppedKinds \cup {"missingText", "missingArgs"}

TextKind(text) == IF text = Undefined THEN "missingText" ELSE "wellFormed"

EventFrame ==
    /\ nEvents < MaxEvents
    /\ nEvents' = nEvents + 1
    /\ stopRun' = "none"
    /\ UNCHANGED <<status, isMuted, hasBrowserFrame, pcRef, pcIdRef,
                   mediaStreamRef, remoteAudioRef, disconnectedRef, sseVars,
                   browserWsReconnectTimer, browserWsRetryCount, wsTimers,
                   attempts, netVars, inputVars, mounted>>

Delivers(e) == e \in 1..Len(streams) /\ streams[e].open

\* case 'user_transcript', lines 166-168
OnUserTranscript(e, text) ==
    /\ Delivers(e)
    /\ chatHistory' = Append(chatHistory, [role |-> "user", text |-> text])
    /\ botRun' = <<>>
    /\ lastEvent' = TextKind(text)
    /\ EventFrame
    /\ UNCHANGED <<bookingParams, isBrowserActive, browserStatus, browserWsRef,
                   sockets, lastToolArgs, droppedFields, shownError>>

\* mutant: every fragment becomes a message of its own
MergeBot_AlwaysAppend(h, text) == Append(h, [role |-> "bot", text |-> text])

\* the updater of lines 170-176
MergeBot(h, text) ==
    IF h # <<>> /\ h[Len(h)].role = "bot"
    THEN Append(SubSeq(h, 1, Len(h) - 1),
                [role |-> "bot", text |-> h[Len(h)].text \o text])
    ELSE Append(h, [role |-> "bot", text |-> text])

\* case 'bot_response', lines 169-177
OnBotResponse(e, text) ==
    /\ Delivers(e)
    /\ chatHistory' = MergeBot(chatHistory, text)
    /\ botRun' = Append(botRun, text)
    /\ lastEvent' = TextKind(text)
    /\ EventFrame
    /\ UNCHANGED <<bookingParams, isBrowserActive, browserStatus, browserWsRef,
                   sockets, lastToolArgs, droppedFields, shownError>>

\* mutant: the arguments are merged into the previous parameters
NewBookingParams_Merged(old, args) ==
    [f \in DOMAIN old \cup DOMAIN args |->
        IF f \in DOMAIN args THEN args[f] ELSE old[f]]

\* setBookingParams(data.args ?? {}), line 179
NewBookingParams(old, args) == args

\* case 'tool_called', lines 178-184, args being data.args ?? {}
ToolCalled(e, args) ==
    /\ Delivers(e)
    /\ bookingParams' = NewBookingParams(bookingParams, args)
    /\ lastToolArgs' = args
    /\ droppedFields' = (droppedFields \/ DOMAIN bookingParams \ DOMAIN args # {})
    /\ isBrowserActive' = TRUE
    /\ browserStatus' = Searching
    /\ shownError' = "none"
    /\ ConnectBrowserWs(streams[e].cap)
    /\ EventFrame
    /\ UNCHANGED <<chatHistory, botRun>>

\* a tool_called message with the argument object args
OnToolCalled(e, args) ==
    /\ ToolCalled(e, args)
    /\ lastEvent' = "wellFormed"

\* a tool_called message without args: data.args ?? {} is {}
OnToolCalledNoArgs(e) ==
    /\ ToolCalled(e, EmptyParams)
    /\ lastEvent' = "missingArgs"

\* data.error ? failed : complete, line 186
ResultText(error) == IF Truthy(error) THEN SearchFailed ELSE SearchComplete

\* case 'tool_result', lines 185-187
OnToolResult(e, error) ==
    /\ Delivers(e)
    /\ browserStatus' = ResultText(error)
    /\ shownError' = error
    /\ lastEvent' = "wellFormed"
    /\ EventFrame
    /\ UNCHANGED <<chatHistory, bookingParams, isBrowserActive, browserWsRef,
                   sockets, lastToolArgs, droppedFields, botRun>>

\* a message of one of the DroppedKinds: the handler (lines 162-190) returns
\* without a state update
OnDropped(e, kind) ==
    /\ Delivers(e)
    /\ lastEvent' = kind
    /\ EventFrame
    /\ UNCHANGED <<chatHistory, bookingParams, isBrowserActive, browserStatus,
                   browserWsRef, sockets, lastToolArgs, droppedFields, botRun,
                   shownError>>

\* ------------------------------------------------------------ specifications
Click == ClickStart \/ ClickStop

Signalling ==
    \E a \in Attempts :
        \/ GumResolve(a)
        \/ GumReject(a)
        \/ LocalDescSettled(a)
        \/ \E ok \in BOOLEAN : OfferResponse(a, ok)
        \/ SetRemoteResolve(a)
        \/ SetRemoteReject(a)

\* the end of the flush; it needs a buffered candidate
Flush == \E a \in Attempts : FlushDone(a)

ConnectionStates ==
    \E a \in Attempts :
        \/ PcConnected(a)
        \/ PcDisconnected(a)
        \/ PcFailed(a)

Candidates == \E a \in Attempts : IceCandidate(a)

StreamEvents ==
    \/ \E e \in 1..MaxStreams : SseError(e)
    \/ \E t \in 1..MaxSseTimers : SseTimerFire(t)

\* The voice session: the button, the start sequence, the connection states
\* the peer connections report, the mute button and the life cycle of the
\* event stream, when no candidate is discovered (so nothing is flushed).
Next == Click \/ Signalling \/ ConnectionStates \/ ToggleMute \/ StreamEvents

Spec == Init /\ [][Next]_vars

\* The candidate exchange: the button, the start sequence and the candidates
\* the peer connections discover.
NextIce == Click \/ Signalling \/ Flush \/ Candidates

SpecIce == Init /\ [][NextIce]_vars


Messages ==
    \E e \in 1..MaxStreams :
        \/ \E text \in Texts : OnUserTranscript(e, text)
        \/ \E text \in Texts : OnBotResponse(e, text)
        \/ \E args \in ArgObjects : OnToolCalled(e, args)
        \/ \E error \in PlainErrors : OnToolResult(e, error)

MicRefused == \E a \in Attempts : GumReject(a)

\* The event stream while the microphone prompt is open or refused: the
\* button, the stream's errors and timer, and the messages it delivers.
NextEvents == Click \/ MicRefused \/ StreamEvents \/ Messages

SpecEvents == Init /\ [][NextEvents]_vars

ToolCalls == \E e \in 1..MaxStreams : OnToolCalled(e, EmptyParams)

ViewEvents ==
    \/ \E w \in 1..MaxSockets : WsOpen(w)
    \/ \E w \in 1..MaxSockets : WsClose(w)
    \/ \E w \in 1..MaxSockets, nonEmpty \in BOOLEAN : WsFrame(w, nonEmpty)
    \/ \E t \in 1..MaxRetry : WsTimerFire(t)

\* The remote-view channel: the button, tool_called events, and the socket's
\* open, frame and close events and backoff timer.
NextView == Click \/ ToolCalls \/ ViewEvents

SpecView == Init /\ [][NextView]_vars

SocketEvents ==
    \/ \E w \in 1..MaxSockets : WsOpen(w)
    \/ \E w \in 1..MaxSockets : WsClose(w)

Frames == \E w \in 1..MaxSockets, nonEmpty \in BOOLEAN : WsFrame(w, nonEmpty)

\* The remote view over the life of the component: the button, tool_called
\* events, the socket's open, frame and close events, and the unmount; the
\* backoff timers that the closes schedule stay pending.
NextDetach == Click \/ ToolCalls \/ SocketEvents \/ Frames \/ Unmount

SpecDetach == Init /\ [][NextDetach]_vars

PointerEvents ==
    \E rect \in Surfaces :
        \E ox \in Offsets(rect.width), oy \in Offsets(rect.height) :
            \/ HandleCanvasClick(rect.left + ox, rect.top + oy, rect)
            \/ \E d \in Deltas :
                   HandleCanvasScroll(rect.left + ox, rect.top + oy, rect, 0, d)

\* Remote input in one voice session: the start, tool_called events, the
\* socket's open and close events, and clicks and wheel events at positions
\* inside the canvas.
NextPointer == ClickStart \/ ToolCalls \/ SocketEvents \/ PointerEvents

SpecPointer == Init /\ [][NextPointer]_vars

KeyEvents == \E key \in KeyValues, mods \in Modifiers : HandleCanvasKeyDown(key, mods)

\* The keyboard in one voice session: the start, tool_called events, the
\* socket's open and close events, and keys pressed over the canvas.
NextKeys == ClickStart \/ ToolCalls \/ SocketEvents \/ KeyEvents

SpecKeys == Init /\ [][NextKeys]_vars

\* every payload the event stream can deliver: the four message types with
\* and without their fields, and the payloads that are no message
Payloads ==
    \E e \in 1..MaxStreams :
        \/ \E text \in Texts \cup {Undefined} : OnUserTranscript(e, text)
        \/ \E text \in Texts \cup {Undefined} : OnBotResponse(e, text)
        \/ \E args \in ArgObjects : OnToolCalled(e, args)
        \/ OnToolCalledNoArgs(e)
        \/ \E error \in ErrorFields : OnToolResult(e, error)
        \/ \E kind \in DroppedKinds : OnDropped(e, kind)

\* The payloads of one event stream: the start and every payload.
NextPayloads == ClickStart \/ Payloads

SpecPayloads == Init /\ [][NextPayloads]_vars


\* ===================================================================== claims

\* C1: the session status changes only along idle -> connecting,
\* connecting -> connected, connecting -> idle and connected -> idle; it never
\* goes from idle directly to connected.
C1_StatusTransitions ==
    [][status' # status =>
          \/ status = "idle" /\ status' = "connecting"
          \/ status = "connecting" /\ status' = "connected"
          \/ status = "connecting" /\ status' = "idle"
          \/ status = "connected" /\ status' = "idle"]_vars

\* the stream and peer connection of attempt a were created (line 280-282)
Created(a) == attempts[a].handlers \/ attempts[a].pcClosed

\* the session is torn down: disconnect requested, every acquired microphone
\* track stopped, every peer connection closed, no stored connection or
\* identifier, no open event stream, no pending stream timer, not muted
SessionTornDown ==
    /\ disconnectedRef
    /\ \A a \in Attempts : Created(a) => attempts[a].trackStopped /\ attempts[a].pcClosed
    /\ pcRef = NULL
    /\ pcIdRef = NULL
    /\ eventSourceRef = NULL
    /\ \A e \in 1..Len(streams) : ~streams[e].open
    /\ \A t \in 1..Len(sseTimers) : sseTimers[t].state # "pending"
    /\ ~isMuted

\* C2: every transition of the status into idle leaves the session torn down:
\* the disconnect-requested flag set, the microphone tracks stopped, the peer
\* connection closed and its identifier cleared, the event stream closed with
\* no reconnect timer pending, the mute flag false.
C2_IdleIsTornDown ==
    [][(status # "idle" /\ status' = "idle") => SessionTornDown']_vars

\* C3: the completion of a step of a start attempt that was stopped or
\* superseded while it was suspended stores no media stream, peer connection
\* or connection identifier, sends no offer and no candidates, and does not
\* change the session status.
C3_StaleCompletionIgnored ==
    [][\A a \in Attempts :
          (attempts[a].stale /\ attempts'[a].pc # attempts[a].pc) =>
              UNCHANGED <<mediaStreamRef, pcRef, pcIdRef, status, offersSent, patches>>]_vars

\* what a caller of disconnect can observe of an attempt's stream and
\* peer connection
AttemptObs(a) ==
    <<attempts[a].trackStopped, attempts[a].trackEnabled, attempts[a].pcClosed,
      attempts[a].handlers, attempts[a].pending, attempts[a].pc>>

ObservableState ==
    <<reactVars, refVars, streams, sseTimers, sockets, wsTimers, netVars,
      inputVars, [a \in Attempts |-> AttemptObs(a)]>>

\* C4: a call of disconnect that directly follows another call of disconnect
\* changes nothing observable: status, mute flag, transcript, booking
\* parameters, remote-view state, stored references, timers, connections.
C4_StopTwiceIdempotent ==
    [][stopRun' \in {"twice", "twiceEst"} => ObservableState' = ObservableState]_vars

\* C4 witness: disconnect ran twice in a row, the first time on a session
\* whose status was connected.
C4_Witness == stopRun = "twiceEst"

\* C5: when a peer connection reports the state failed or disconnected, the
\* teardown of an explicit stop is performed: status idle, disconnect
\* requested, media and peer connection released, event stream closed.
C5_FailureTearsDown ==
    [][\A a \in Attempts :
          (attempts'[a].connState \in {"failed", "disconnected"}
             /\ attempts'[a].connState # attempts[a].connState) =>
              /\ status' = "idle"
              /\ disconnectedRef'
              /\ mediaStreamRef' = NULL
              /\ pcRef' = NULL
              /\ eventSourceRef' = NULL]_vars


\* C6: from an explicit stop until the next start (the disconnect-requested
\* flag is set) no event stream is open or stored, no stream timer is stored,
\* no step opens a stream, and no event is applied to the transcript, the
\* booking parameters or the remote-view state; a stream timer that fires in
\* that period opens nothing.
C6_NoStreamAfterStop ==
    [][disconnectedRef' =>
          /\ eventSourceRef' = NULL
          /\ sseReconnectTimer' = NULL
          /\ \A e \in 1..Len(streams') : ~streams'[e].open
          /\ disconnectedRef =>
                /\ Len(streams') = Len(streams)
                /\ UNCHANGED <<chatHistory, bookingParams, isBrowserActive,
                               browserStatus, nEvents>>]_vars

\* C6 witness: after a stop that cancelled a pending stream timer, with
\* events applied before it, while another stream timer is still pending.
C6_Witness ==
    /\ disconnectedRef
    /\ nEvents > 0
    /\ \E t \in 1..Len(sseTimers) : sseTimers[t].state = "cleared"
    /\ \E t \in 1..Len(sseTimers) : sseTimers[t].state = "pending"

RECURSIVE Flatten(_)
Flatten(ss) == IF ss = <<>> THEN <<>> ELSE Head(ss) \o Flatten(Tail(ss))

\* the candidates of the PATCH requests sent for attempt a, in sending order
SentCandidates(a) ==
    Flatten([i \in 1..Len(patches[a]) |-> patches[a][i].candidates])

NoDuplicates(q) == \A i, j \in 1..Len(q) : q[i] = q[j] => i = j

IsPrefix(p, q) == Len(p) <= Len(q) /\ SubSeq(q, 1, Len(p)) = p

\* C7: once the buffered candidates of an attempt have been flushed, the
\* candidates that were discovered and buffered before the offer response are
\* in exactly one PATCH request, which carries the pc_id of that offer
\* response and lists them in discovery order; no candidate appears twice
\* across all PATCH requests.
C7_BufferedFlushedOnce ==
    \A a \in Attempts :
        /\ NoDuplicates(SentCandidates(a))
        /\ (attempts[a].pc \in {"flush", "done"} /\ attempts[a].buffered # <<>>) =>
              LET batches == {i \in 1..Len(patches[a]) :
                                 IsPrefix(attempts[a].buffered, patches[a][i].candidates)}
              IN /\ Cardinality(batches) = 1
                 /\ \A i \in batches : patches[a][i].pc_id = PcIdOf(a)
                 /\ \A k \in 1..Len(attempts[a].buffered) :
                       Cardinality({j \in 1..Len(SentCandidates(a)) :
                                      SentCandidates(a)[j] = attempts[a].buffered[k]}) = 1

\* C7 witness: an attempt ended its try block after two candidates were
\* buffered before its offer response.
C7_Witness ==
    \E a \in Attempts : attempts[a].pc = "done" /\ Len(attempts[a].buffered) = 2

\* the last message of the transcript is h[Len(h)]
NoAdjacentBots(h) ==
    \A i \in 1..(Len(h) - 1) : ~(h[i].role = "bot" /\ h[i + 1].role = "bot")

\* C8: after bot_response fragments with no user_transcript in between, the
\* transcript ends with one Bot message whose text is the fragments
\* concatenated in arrival order, and the message before it is not a Bot
\* message; the transcript never has two adjacent Bot messages; an event
\* leaves every message but the last unchanged and removes none, and the last
\* one it leaves unchanged or, if it is a Bot message, extends.
C8_BotFragmentsMerged ==
    /\ [](/\ NoAdjacentBots(chatHistory)
          /\ botRun # <<>> =>
                /\ chatHistory # <<>>
                /\ chatHistory[Len(chatHistory)] =
                       [role |-> "bot", text |-> Flatten(botRun)])
    /\ [][nEvents' # nEvents =>
             /\ Len(chatHistory') >= Len(chatHistory)
             /\ \A i \in 1..(Len(chatHistory) - 1) : chatHistory'[i] = chatHistory[i]
             /\ chatHistory # <<>> =>
                   LET old == chatHistory[Len(chatHistory)]
                       new == chatHistory'[Len(chatHistory)]
                   IN \/ new = old
                      \/ /\ old.role = "bot" /\ new.role = "bot"
                         /\ IsPrefix(old.text, new.text)]_vars

\* C8 witness: after a user message, the fragments "a" then "b" arrived.
C8_Witness ==
    /\ botRun = << <<"a">>, <<"b">> >>
    /\ Len(chatHistory) = 2
    /\ chatHistory[1].role = "user"

\* C9: the booking parameters are exactly the argument object of the last
\* tool_called event since the last start, or empty if there was none.
C9_ParamsAreLastArgs == bookingParams = lastToolArgs

\* C9 witness: a tool_called event carried a field and lacked another that
\* the parameters had before it.
C9_Witness == droppedFields /\ bookingParams # EmptyParams

\* the delay the claim gives for the N-th reconnect
ClaimedDelay(n) == IF 1000 * 2^(n - 1) < 5000 THEN 1000 * 2^(n - 1) ELSE 5000

\* C10: the N-th close of the remote-view channel that schedules a reconnect
\* schedules it after min(1000 * 2^(N-1), 5000) ms: 1 s, 2 s, 4 s, 5 s, 5 s.
C10_BackoffDelays ==
    \A n \in 1..Len(wsTimers) : wsTimers[n].delay = ClaimedDelay(n)

\* C10 witness: five reconnects have been scheduled, the last two capped.
C10_Witness ==
    /\ Len(wsTimers) = 5
    /\ wsTimers[4].delay = 5000
    /\ wsTimers[5].delay = 5000

\* C11: every successful open of the remote-view socket resets the backoff
\* counter to zero, so the first close after an open that schedules a
\* reconnect schedules it after the base delay of 1 s, however many closes
\* came before that open.
C11_RetryResetOnOpen ==
    [][/\ \A w \in 1..Len(sockets) :
             (sockets[w].state = "connecting" /\ sockets'[w].state = "open") =>
                 browserWsRetryCount' = 0
       /\ (/\ Len(wsTimers') > Len(wsTimers)
           /\ wsTimers # <<>>
           /\ wsTimers[Len(wsTimers)].openedAfter) =>
              wsTimers'[Len(wsTimers')].delay = BaseDelay]_vars

\* C12: a start attempt that fails (microphone refused, POST /offer answered
\* with a non-success status) is not retried: the failing step sets the status
\* to idle, sends no offer and begins no attempt; the failed attempt takes no
\* further step, so every offer is sent by an attempt that has not failed; and
\* an attempt begins only in a step that takes the status from idle to
\* connecting, which is the press of the start button.
C12_FailureIsTerminal ==
    [][/\ \A a \in Attempts :
             (attempts[a].pc # "failed" /\ attempts'[a].pc = "failed") =>
                 /\ status' = "idle"
                 /\ offersSent' = offersSent
                 /\ Started' = Started
       /\ \A a \in Attempts : attempts[a].pc = "failed" => attempts'[a].pc = "failed"
       /\ offersSent' # offersSent =>
              /\ offersSent' = offersSent + 1
              /\ \E a \in Attempts : attempts[a].pc = "local" /\ attempts'[a].pc = "post"
       /\ Started' # Started =>
              /\ status = "idle" /\ status' = "connecting"
              /\ Cardinality(Started') = Cardinality(Started) + 1]_vars

\* C12 witness: the first attempt ended with the microphone refused, the
\* second, started by a new press, ended with its POST /offer refused (its
\* peer connection was never closed and no identifier was ever stored).
C12_Witness ==
    /\ status = "idle"
    /\ attempts[1].pc = "failed" /\ ~Created(1)
    /\ attempts[2].pc = "failed" /\ attempts[2].localSet
    /\ ~attempts[2].pcClosed /\ ~attempts[2].remoteSet
    /\ pcIdRef = NULL
    /\ offersSent = 1

\* the EventSource objects that are not closed
OpenStreams == {e \in 1..Len(streams) : streams[e].open}

\* C13: at most one event-stream connection is open in every state reached
\* by starts, stops, stream errors and timer firings, and a step taken while
\* a connection is held creates no connection.
C13_OneEventStream ==
    /\ [](Cardinality(OpenStreams) <= 1)
    /\ [][eventSourceRef # NULL => Len(streams') = Len(streams)]_vars

\* C13 witness: two connections were created and the second is open, after a
\* second start and a reconnect timer that fired: of these two connect calls
\* one found the connection held and opened nothing.
C13_Witness ==
    /\ Len(streams) = 2
    /\ streams[2].open
    /\ Cardinality(Started) = 2
    /\ Len(sseTimers) = 1
    /\ sseTimers[1].state = "fired"

\* C14: the mute flag is true only while the status is connected.
C14_MutedOnlyConnected == isMuted => status = "connected"

\* C15: hasBrowserFrame becomes true only in a step of an open remote-view
\* socket (a frame drawn), and it is false after every step in which a
\* remote-view socket closes (detach) or opens (attach, reattach).
C15_FrameFlagResets ==
    [][/\ (~hasBrowserFrame /\ hasBrowserFrame') =>
              /\ \E w \in 1..Len(sockets) : sockets[w].state = "open"
              /\ UNCHANGED sockets
       /\ \A w \in 1..Len(sockets) :
             (sockets[w].state # "closed" /\ sockets'[w].state = "closed") =>
                 ~hasBrowserFrame'
       /\ \A w \in 1..Len(sockets) :
             (sockets[w].state = "connecting" /\ sockets'[w].state = "open") =>
                 ~hasBrowserFrame']_vars

Abs(n) == IF n < 0 THEN -n ELSE n

\* C16: for a click or wheel event at (clientX, clientY) inside the canvas
\* displayed at rect, the forwarded x is an integer nearest to
\* (clientX - left) / width * 1280 and y one nearest to
\* (clientY - top) / height * 800; an event at the exact centre is forwarded
\* as (640, 400) whatever the displayed size, and 0 <= x <= 1280 and
\* 0 <= y <= 800.
C16_PointerMapping ==
    lastInput.event.type \in {"click", "scroll"} =>
        LET e == lastInput.event
            dx == e.clientX - e.rect.left
            dy == e.clientY - e.rect.top
        IN \A i \in 1..Len(lastInput.sent) :
              LET m == lastInput.sent[i].msg IN
              /\ 2 * Abs(m.x * e.rect.width - dx * 1280) <= e.rect.width
              /\ 2 * Abs(m.y * e.rect.height - dy * 800) <= e.rect.height
              /\ 2 * dx = e.rect.width => m.x = 640
              /\ 2 * dy = e.rect.height => m.y = 400
              /\ 0 <= m.x /\ m.x <= 1280
              /\ 0 <= m.y /\ m.y <= 800

\* C16 witness: a click at the exact centre of a canvas displayed 3 pixels
\* wide and 5 pixels high was forwarded as (640, 400).
C16_Witness ==
    /\ lastInput.event.type = "click"
    /\ lastInput.event.rect.width = 6 /\ lastInput.event.rect.height = 10
    /\ 2 * (lastInput.event.clientX - lastInput.event.rect.left) = 6
    /\ 2 * (lastInput.event.clientY - lastInput.event.rect.top) = 10
    /\ Len(lastInput.sent) = 1
    /\ lastInput.sent[1].msg.x = 640 /\ lastInput.sent[1].msg.y = 400

\* C17: a remote-view backoff timer that fires while a disconnect is
\* requested (it was scheduled before the stop) opens no connection.
C17_ViewTimerAfterStop ==
    [][\A t \in 1..Len(wsTimers) :
          (/\ disconnectedRef
           /\ wsTimers[t].state = "pending"
           /\ wsTimers'[t].state = "fired") => Len(sockets') = Len(sockets)]_vars

\* C18: a close of a remote-view socket schedules a reconnect exactly when,
\* at the time of the close, the remote view is active and no disconnect is
\* requested.
C18_RetryOnCurrentActivity ==
    [][\A w \in 1..Len(sockets) :
          (sockets[w].state # "closed" /\ sockets'[w].state = "closed") =>
              (Len(wsTimers') = Len(wsTimers) + 1
                  <=> (isBrowserActive /\ ~disconnectedRef))]_vars

\* the candidates are numbered in discovery order: <<a, n>> is the n-th
\* candidate of attempt a's peer connection
InDiscoveryOrder(q) == \A i, j \in 1..Len(q) : i < j => q[i][2] < q[j][2]

\* C19: the candidates of a peer connection reach the backend in discovery
\* order (none discovered after the offer response is sent before the
\* buffered batch), and the step that sends the buffered batch empties the
\* buffer.
C19_FlushAtOnce ==
    /\ [](\A a \in Attempts : InDiscoveryOrder(SentCandidates(a)))
    /\ [][\A a \in Attempts :
             (Len(patches'[a]) > Len(patches[a])
                /\ patches'[a][Len(patches'[a])].candidates = attempts[a].pending) =>
                 attempts'[a].pending = <<>>]_vars

\* C20: every PATCH that carries candidates of a peer connection carries the
\* pc_id of the offer response of that peer connection's attempt, and no
\* candidate of an attempt is sent before that attempt's offer response.
C20_CandidatesAddressed ==
    \A a \in Attempts :
        /\ \A i \in 1..Len(patches[a]) : patches[a][i].pc_id = PcIdOf(a)
        /\ attempts[a].pc \in {"gum", "local", "post"} => patches[a] = <<>>

\* C21: an event-stream connection is created only when the audio transport
\* of some attempt reports its connection established, and an event is
\* applied only then.
C21_StreamAfterAudioUp ==
    [][(Len(streams') > Len(streams) \/ nEvents' # nEvents) =>
          \E a \in Attempts : attempts[a].connState = "connected"]_vars

\* C22: when an event-stream connection closes in a step that leaves no
\* disconnect requested (the stream's error), no connection stays stored and
\* exactly one timer is added, pending, with the delay of 2000 ms, and stored;
\* when a timer fires while no disconnect is requested, a connection is open
\* and stored afterwards (a new one unless one was held); when it fires while
\* a disconnect is requested, no connection is created.
C22_StreamRetry ==
    [][/\ \A e \in 1..Len(streams) :
             (streams[e].open /\ ~streams'[e].open /\ ~disconnectedRef') =>
                 /\ eventSourceRef' = NULL
                 /\ Len(sseTimers') = Len(sseTimers) + 1
                 /\ SubSeq(sseTimers', 1, Len(sseTimers)) = sseTimers
                 /\ sseTimers'[Len(sseTimers')].state = "pending"
                 /\ sseTimers'[Len(sseTimers')].delay = 2000
                 /\ sseReconnectTimer' = Len(sseTimers')
       /\ \A t \in 1..Len(sseTimers) :
             (sseTimers[t].state = "pending" /\ sseTimers'[t].state = "fired") =>
                 IF disconnectedRef
                 THEN UNCHANGED <<streams, eventSourceRef>>
                 ELSE /\ eventSourceRef' # NULL
                      /\ streams'[eventSourceRef'].open
                      /\ eventSourceRef = NULL => Len(streams') = Len(streams) + 1]_vars

\* C22 witness: within one attempt the stream failed, was reopened by the
\* timer after 2000 ms, and failed again, with the second timer pending after
\* the same delay.
C22_Witness ==
    /\ ~disconnectedRef
    /\ Cardinality(Started) = 1
    /\ Len(streams) = 2 /\ ~streams[2].open
    /\ Len(sseTimers) = 2
    /\ sseTimers[1].state = "fired" /\ sseTimers[1].delay = 2000
    /\ sseTimers[2].state = "pending" /\ sseTimers[2].delay = 2000

\* what the event handlers show to the user and what they could close
EventEffects ==
    <<chatHistory, bookingParams, isBrowserActive, browserStatus,
      hasBrowserFrame, streams, eventSourceRef, sockets, browserWsRef>>

\* C23: a malformed payload (unparseable text, a value that is no object, an
\* unknown type, a known type without its fields) leaves the transcript, the
\* booking parameters and the remote-view state unchanged and closes nothing,
\* so the stream stays open for the events after it.
C23_MalformedDropped ==
    [][(nEvents' # nEvents /\ lastEvent' \in MalformedKinds) =>
          UNCHANGED EventEffects]_vars

\* a step that applies a well-formed tool event: the text events always
\* change the transcript, a tool_result records its error field, a
\* tool_called clears that record
ToolStep == nEvents' # nEvents /\ lastEvent' = "wellFormed" /\ chatHistory' = chatHistory

\* C24: a tool_called event leaves the remote view active, the status text
\* at the in-progress indicator and a remote-view connection stored; a
\* tool_result event sets the status text to the failure indicator if its
\* payload has an error field and to the success indicator if it has none,
\* and changes nothing else.
C24_ToolEvents ==
    [][/\ (ToolStep /\ shownError' = "none") =>
              /\ isBrowserActive'
              /\ browserStatus' = Searching
              /\ browserWsRef' # NULL
              /\ sockets'[browserWsRef'].state \in {"connecting", "open"}
       /\ (ToolStep /\ shownError' # "none") =>
              /\ browserStatus' = IF shownError' = "absent"
                                  THEN SearchComplete ELSE SearchFailed
              /\ UNCHANGED <<status, chatHistory, bookingParams, isBrowserActive,
                             isMuted, hasBrowserFrame, refVars, objVars, netVars,
                             inputVars>>]_vars

\* C25: a key press forwards at most one message. A key of the allow-list is
\* forwarded as a keypress naming it; a single printable character pressed
\* with none of Ctrl, Alt and Meta is forwarded as the insertion of that
\* character (both whenever the remote-view socket is open); every other
\* key or combination forwards nothing and keeps its default handling.
C25_KeyForwarding ==
    lastInput.event.type = "keydown" =>
        LET key == lastInput.event.key
            mods == lastInput.event.mods
            sent == lastInput.sent
            plain == mods = NoMods
        IN /\ Len(sent) <= 1
           /\ key \in SpecialKeys =>
                 /\ lastInput.prevented
                 /\ \A i \in 1..Len(sent) :
                        sent[i].msg = [type |-> "keypress", key |-> key]
                 /\ lastInput.connected => Len(sent) = 1
           /\ (key \in SingleCharacters /\ plain) =>
                 /\ lastInput.prevented
                 /\ \A i \in 1..Len(sent) :
                        sent[i].msg = [type |-> "type", text |-> key]
                 /\ lastInput.connected => Len(sent) = 1
           /\ (key \notin SpecialKeys /\ ~(key \in SingleCharacters /\ plain)) =>
                 /\ sent = <<>>
                 /\ ~lastInput.prevented

\* C26: a disconnect() leaves the remote-view sockets, the stored socket,
\* the backoff timer and counter, isBrowserActive and hasBrowserFrame as they
\* are and resets the status text; the client closes a remote-view socket
\* only in the step that unmounts the component.
C26_ViewSurvivesStop ==
    [][/\ stopRun' # "none" =>
              /\ UNCHANGED <<viewVars, isBrowserActive, hasBrowserFrame>>
              /\ browserStatus' = Waiting
       /\ (\E w \in 1..Len(sockets) :
               sockets[w].state # "closing" /\ sockets'[w].state = "closing") =>
              (mounted /\ ~mounted')]_vars

\* C26 witness: after a stop the stored socket is open, a frame is shown and
\* the backoff counter is still 1.
C26_Witness ==
    /\ stopRun # "none"
    /\ mounted
    /\ browserWsRef # NULL
    /\ sockets[browserWsRef].state = "open"
    /\ isBrowserActive
    /\ hasBrowserFrame
    /\ browserWsRetryCount = 1
    /\ browserStatus = Waiting

\* C26, the other case: the unmount has closed the stored socket.
C26_Detached ==
    /\ ~mounted
    /\ \E w \in 1..Len(sockets) : sockets[w].state = "closing"

\* the remote-view sockets that are connecting or open
LiveSockets == {w \in 1..Len(sockets) : sockets[w].state \in {"connecting", "open"}}

\* C27: at most one remote-view socket is connecting or open, and it is the
\* one browserWsRef holds.
C27_OneViewConnection ==
    /\ Cardinality(LiveSockets) <= 1
    /\ \A w \in LiveSockets : browserWsRef = w

====
